---- MODULE Spec2Model ----
(***************************************************************************)
(* The CIROH_Datasets notebook as a state machine.  The notebook is a flat *)
(* script: its code cells run top to bottom, every statement acts on the   *)
(* kernel's global names, and an uncaught exception ends the run.          *)
(*                                                                         *)
(* Numbers that are floats in the notebook are fixed-point integers here   *)
(* (hundredths of the unit); a division rounds down to that resolution.    *)
(* Grid coordinates are even integers, so the mean of two of them is an    *)
(* integer.  NaN is one reserved value that compares unequal to every      *)
(* number and to itself.                                                   *)
(***************************************************************************)
EXTENDS Integers, Sequences, FiniteSets, TLC

VARIABLES
    csv,        \* the six CSV files of ../datasets/facets_and_opgs/ (input)
    nc,         \* the six NetCDF files of ../datasets/era5_atmos/ (input)
    dates,      \* the requested interval <<start day, end day>> (input)
    backend,    \* the matplotlib backend of the kernel (environment)
    elev, facets, lats, lons, orientation, opg,           \* cell 2
    orientx,                                              \* cell 3
    IVT, precip, temp700, uwinds700, vwinds700, hgt500,   \* cells 5 and 7
    figs,       \* figures pyplot holds open (ids)
    nfig,       \* number of figures created so far; the last one is current
    art,        \* what has been drawn on each figure created so far
    files,      \* ../figures/: file name -> image written
    ndays,      \* the range of the daily loop, evaluated once
    dayx,       \* the loop variable
    pc,         \* the statement the kernel runs next
    err         \* the exception that ended the run, or "none"

vars == <<csv, nc, dates, backend, elev, facets, lats, lons, orientation, opg,
          orientx, IVT, precip, temp700, uwinds700, vwinds700, hgt500,
          figs, nfig, art, files, ndays, dayx, pc, err>>

inputs == <<csv, nc, dates, backend>>
facetData == <<elev, facets, lats, lons, orientation, opg>>
atmosData == <<IVT, precip, temp700, uwinds700, vwinds700, hgt500>>
plotState == <<figs, nfig, art, files>>

(***************************************************************************)
(* Bounds of the model.                                                    *)
(***************************************************************************)
MaxCols == 3        \* columns of the widest facet grid drawn freely
MaxCoord == 2       \* coordinates are 0, 2, .., 2 * MaxCoord
MaxDay == 3         \* short time axes and intervals range over days 1..MaxDay
LongAxisDays == 31  \* days of the long daily time axis (January 2017)
TicksPerDay == 2    \* resolution of a timestamp within its day

(***************************************************************************)
(* Numbers of the notebook.                                                *)
(***************************************************************************)
NaN == -1
FlatCode == 9
FacetId == 2131
Stride == 5
PrecipScale == 1000
KelvinOffset == 27315
Gravity == 981
Knots == 194384
DateFrom == 7
DateTo == 12

FieldNames == {"IVT", "precip", "temp700", "uwinds700", "vwinds700", "hgt500"}

(***************************************************************************)
(* numpy arrays: a grid is its shape and its values in row-major order.    *)
(***************************************************************************)
Grid(shape, data) == [shape |-> shape, data |-> data]
EmptyGrid == Grid(<<0, 0>>, <<>>)
Size(shape) == shape[1] * shape[2]

\* a == b on floats: NaN equals nothing
FloatEq(a, b) == a # NaN /\ b # NaN /\ a = b

\* the comparison takes in the code below the sentinel
MaskFrom8(g) ==
    Grid(g.shape, [j \in 1..Len(g.data) |-> IF g.data[j] >= 8 THEN NaN ELSE g.data[j]])

\* orientx[orientx == 9] = np.nan
MaskFlat(g) ==
    Grid(g.shape, [j \in 1..Len(g.data) |->
                      IF FloatEq(g.data[j], FlatCode) THEN NaN ELSE g.data[j]])

\* the conversion hands back the array it was given
AstypeShares == FALSE

\* orientation.astype('float') returns a new array: the store above does not
\* reach the array that orientation names.
AstypeCopies == TRUE

\* a[m == v] for a boolean mask of the shape of a: the selected values in
\* row-major order.
RECURSIVE Pick(_, _, _, _)
Pick(data, mask, v, j) ==
    IF j > Len(data) THEN <<>>
    ELSE (IF FloatEq(mask[j], v) THEN <<data[j]>> ELSE <<>>) \o Pick(data, mask, v, j + 1)

BoolIndexOK(a, m) == a.shape = m.shape
BoolIndex(a, m, v) == Pick(a.data, m.data, v, 1)

\* np.median: sort, then the middle value or the mean of the two middle ones;
\* NaN (and a warning, no exception) for an empty selection.
RECURSIVE Insert(_, _)
Insert(x, s) ==
    IF s = <<>> THEN <<x>>
    ELSE IF x <= Head(s) THEN <<x>> \o s
    ELSE <<Head(s)>> \o Insert(x, Tail(s))

RECURSIVE Sort(_)
Sort(s) == IF s = <<>> THEN <<>> ELSE Insert(Head(s), Sort(Tail(s)))

\* the upper middle value, never a mean
MedianUpper(s) == IF Len(s) = 0 THEN NaN ELSE Sort(s)[(Len(s) \div 2) + 1]

Median(s) ==
    LET n == Len(s)
        t == Sort(s)
    IN  IF n = 0 THEN NaN
        ELSE IF n % 2 = 1 THEN t[(n + 1) \div 2]
        ELSE (t[n \div 2] + t[(n \div 2) + 1]) \div 2

\* pcolormesh(X, Y, C, shading='auto'): X and Y of one shape; C of that shape
\* (nearest) or one smaller in both directions (flat); else TypeError.
PcolormeshOK(X, Y, C) ==
    /\ X.shape = Y.shape
    /\ \/ C.shape = X.shape
       \/ C.shape = <<X.shape[1] - 1, X.shape[2] - 1>>

(***************************************************************************)
(* Dates.  A day is its number in the year 2017; a timestamp is            *)
(* day * TicksPerDay + tick.                                               *)
(***************************************************************************)
DayOf(t) == t \div TicksPerDay
StartOfDay(d) == d * TicksPerDay
EndOfDay(d) == d * TicksPerDay + (TicksPerDay - 1)

MonthLen == <<31, 28, 31, 30, 31, 30, 31, 31, 30, 31, 30, 31>>
Digit == <<"0", "1", "2", "3", "4", "5", "6", "7", "8", "9">>
TwoDigits(n) == Digit[(n \div 10) + 1] \o Digit[(n % 10) + 1]

RECURSIVE MonthDay(_, _)
MonthDay(d, m) ==
    IF m < 12 /\ d > MonthLen[m] THEN MonthDay(d - MonthLen[m], m + 1) ELSE <<m, d>>

\* the string stops at the month
DatetimeAsStringMonth(t) == "2017-" \o TwoDigits(MonthDay(DayOf(t), 1)[1])

\* np.datetime_as_string(t, unit="D")
DatetimeAsString(t) ==
    LET md == MonthDay(DayOf(t), 1)
    IN  "2017-" \o TwoDigits(md[1]) \o "-" \o TwoDigits(md[2])

\* f"{path}atmos_{datex}.png"
AtmosFile(datex) == "atmos_" \o datex \o ".png"

(***************************************************************************)
(* xarray datasets: a time axis (sorted timestamps), the shape of the      *)
(* latitude x longitude grid, and one grid of values per timestamp.        *)
(***************************************************************************)
Dataset(time, shape, vals) == [time |-> time, shape |-> shape, vals |-> vals]
EmptyDataset == Dataset(<<>>, <<0, 0>>, <<>>)

\* the values stay in metres
TimesOne(v) == v
TimesScale(v) == v * PrecipScale
MinusKelvin(v) == v - KelvinOffset
DivGravity(v) == (v * 100) \div Gravity
ToKnots(v) == (v * Knots) \div 100000

Apply(op, v) ==
    CASE op = "*1000" -> TimesScale(v)
      [] op = "-273.15" -> MinusKelvin(v)
      [] op = "/9.81" -> DivGravity(v)

\* arithmetic on a dataset acts on every value of its data variable and
\* leaves the coordinates alone
Arith(ds, op) ==
    Dataset(ds.time, ds.shape,
            [i \in 1..Len(ds.vals) |->
                [j \in 1..Len(ds.vals[i]) |-> Apply(op, ds.vals[i][j])]])

\* xr.open_dataset(f"{path}<file>.nc")
OpenDataset(name) == nc[name]

\* searchsorted on a sorted axis: the number of entries before the insertion
\* point of key, found by bisection (0-based lo, hi)
RECURSIVE Bisect(_, _, _, _, _)
Bisect(a, key, left, lo, hi) ==
    IF lo >= hi THEN lo
    ELSE LET mid == (lo + hi) \div 2
         IN  IF (left /\ a[mid + 1] < key) \/ (~left /\ a[mid + 1] <= key)
             THEN Bisect(a, key, left, mid + 1, hi)
             ELSE Bisect(a, key, left, lo, mid)

SliceFrom(time, d) == Bisect(time, StartOfDay(d), TRUE, 0, Len(time))
\* the slice ends at the start of its last day
SliceToStartOfDay(time, d) == Bisect(time, StartOfDay(d), FALSE, 0, Len(time))
SliceTo(time, d) == Bisect(time, EndOfDay(d), FALSE, 0, Len(time))

\* ds.sel(time=slice(dates[0], dates[1])): label slicing with day strings,
\* from the start of the first day to the end of the last day
Sel(ds, d) ==
    LET lo == SliceFrom(ds.time, d[1])
        hi == SliceTo(ds.time, d[2])
    IN  Dataset(SubSeq(ds.time, lo + 1, hi), ds.shape, SubSeq(ds.vals, lo + 1, hi))

\* a[dayx, ::5, ::5] of a grid of the given shape, row-major
StrideLen(n) == (n + Stride - 1) \div Stride
SubShape(shape) == <<StrideLen(shape[1]), StrideLen(shape[2])>>
SubSample(g, shape) ==
    LET ss == SubShape(shape)
    IN  [k \in 1..Size(ss) |->
            g[((k - 1) \div ss[2]) * Stride * shape[2] + ((k - 1) % ss[2]) * Stride + 1]]

\* values[dayx, ::5, ::5] * 1.94384
Barbs(g, shape) == [k \in 1..Size(SubShape(shape)) |-> ToKnots(SubSample(g, shape)[k])]

(***************************************************************************)
(* The inputs: what the files hold.                                        *)
(***************************************************************************)
RECURSIVE SortedSeq(_)
SortedSeq(S) ==
    IF S = {} THEN <<>>
    ELSE LET m == CHOOSE x \in S : \A y \in S : x <= y
         IN  <<m>> \o SortedSeq(S \ {m})

DayAxes == {SortedSeq(S) : S \in SUBSET (1..MaxDay)}
LongAxis == [i \in 1..LongAxisDays |-> i]
Ticks == 0..(TicksPerDay - 1)
ShippedDates == <<DateFrom, DateTo>>
ShortDates == (1..MaxDay) \X (1..MaxDay)
WholeDates == <<1, MaxDay>>

SrcBase(name) ==
    CASE name = "IVT" -> 20000
      [] name = "precip" -> 3
      [] name = "temp700" -> 26000
      [] name = "uwinds700" -> -1500
      [] name = "vwinds700" -> 700
      [] name = "hgt500" -> 5400000

\* the value a file holds at timestamp t, cell j: one-to-one in (t, j)
SrcValue(name, t, j) == SrcBase(name) + 37 * t + j

MkDataset(name, days, tick, shape) ==
    LET time == [i \in 1..Len(days) |-> days[i] * TicksPerDay + tick]
    IN  Dataset(time, shape,
                [i \in 1..Len(days) |-> [j \in 1..Size(shape) |-> SrcValue(name, time[i], j)]])

AtmosShape == <<2, 6>>
OtherAtmosShapes == {<<2, 5>>, <<2, 7>>, <<6, 6>>}

Uniform(days, tick) == [f \in FieldNames |-> MkDataset(f, days, tick, AtmosShape)]
Deviating(days, f0, days0, tick0, shape0) ==
    [f \in FieldNames |->
        IF f = f0 THEN MkDataset(f, days0, tick0, shape0)
        ELSE MkDataset(f, days, 0, AtmosShape)]

Atmos(n, d) == [nc |-> n, dates |-> d]

\* every field on one axis, every interval
MonthEnd == <<31, 32>>
SubsettingInputs ==
    {Atmos(Uniform(a, k), d) :
        a \in DayAxes \cup {LongAxis}, k \in Ticks, d \in ShortDates \cup {ShippedDates}}
    \cup {Atmos(Uniform(MonthEnd, k), MonthEnd) : k \in Ticks}
\* one field on an axis of its own
AxisInputs ==
    {Atmos(Deviating(a, f, b, k, AtmosShape), WholeDates) :
        a \in DayAxes, f \in FieldNames, b \in DayAxes, k \in {0, TicksPerDay - 1}}
\* one field on a grid of its own
ShapeInputs ==
    {Atmos(Deviating(<<1, 2>>, f, <<1, 2>>, 0, s), WholeDates) :
        f \in FieldNames, s \in OtherAtmosShapes}
AtmosInputs == SubsettingInputs \cup AxisInputs \cup ShapeInputs
StdAtmos == Atmos(Uniform(<<1, 2>>, 0), WholeDates)
BasicAtmosInputs ==
    {StdAtmos,
     Atmos(Uniform(LongAxis, 0), ShippedDates),
     Atmos(Deviating(<<1, 2>>, "precip", <<1>>, 0, AtmosShape), WholeDates),
     Atmos(Deviating(<<1, 2>>, "vwinds700", <<1, 2>>, 0, <<2, 5>>), WholeDates)}

OtherFacet == FacetId + 1
OrientVals == {1, 8, FlatCode, NaN}
CoordVals == {2 * k : k \in 0..MaxCoord}
Ramp(shape, from) == Grid(shape, [j \in 1..Size(shape) |-> from + 2 * j])
Fall(shape, from) == Grid(shape, [j \in 1..Size(shape) |-> from + 2 * (Size(shape) - j)])
StdFacets(shape) ==
    Grid(shape, [j \in 1..Size(shape) |-> IF j % 2 = 1 THEN FacetId ELSE OtherFacet])
StdOrient(shape) ==
    Grid(shape, [j \in 1..Size(shape) |-> IF j % 3 = 1 THEN FlatCode ELSE (j % 8) + 1])

OpgTable(index, cols) == [index |-> index, cols |-> cols]
StdOpg ==
    OpgTable(<<"2017-01-01", "2017-01-02", "2017-02-01">>,
             [c \in {"2131", "2132"} |-> IF c = "2131" THEN <<12, NaN, 7>> ELSE <<1, 2, 3>>])
OtherOpg == OpgTable(<<"2017-01-01">>, [c \in {"2132"} |-> <<5>>])

Csv(e, f, la, lo, o, t) ==
    [elev |-> e, facets |-> f, lats |-> la, lons |-> lo, orientation |-> o, opg |-> t]
StdCsv(shape) ==
    Csv(Ramp(shape, 1000), StdFacets(shape), Ramp(shape, 40), Fall(shape, 0),
        StdOrient(shape), StdOpg)

\* any orientation grid
OrientInputs ==
    UNION {{[StdCsv(<<1, n>>) EXCEPT !.orientation = Grid(<<1, n>>, o)] :
                o \in [1..n -> OrientVals]} : n \in 1..MaxCols}
\* any placement of the labelled facet, any longitudes
LabelInputs ==
    UNION {{[StdCsv(<<1, n>>) EXCEPT !.facets = Grid(<<1, n>>, f),
                                     !.lons = Grid(<<1, n>>, x)] :
                f \in [1..n -> {FacetId, OtherFacet}],
                x \in [1..n -> CoordVals]} : n \in 1..MaxCols}
\* one of the five grids on a shape of its own
FacetShape == <<2, 3>>
OtherFacetShapes == {<<1, 2>>, <<2, 2>>, <<3, 3>>}
GridNames == {"elev", "facets", "lats", "lons", "orientation"}
Reshaped(g, s) ==
    CASE g = "elev" -> [StdCsv(FacetShape) EXCEPT !.elev = Ramp(s, 1000)]
      [] g = "facets" -> [StdCsv(FacetShape) EXCEPT !.facets = StdFacets(s)]
      [] g = "lats" -> [StdCsv(FacetShape) EXCEPT !.lats = Ramp(s, 40)]
      [] g = "lons" -> [StdCsv(FacetShape) EXCEPT !.lons = Fall(s, 0)]
      [] g = "orientation" -> [StdCsv(FacetShape) EXCEPT !.orientation = StdOrient(s)]
GridShapeInputs == {Reshaped(g, s) : g \in GridNames, s \in OtherFacetShapes}
BasicCsvInputs ==
    {StdCsv(FacetShape),
     [StdCsv(FacetShape) EXCEPT !.opg = OtherOpg],
     Reshaped("orientation", <<3, 3>>),
     Reshaped("facets", <<2, 2>>)}

Backends == {"inline", "agg"}
Run(c, a, b) == [csv |-> c, atmos |-> a, backend |-> b]
GridRuns ==
    {Run(c, StdAtmos, "inline") : c \in OrientInputs \cup LabelInputs \cup GridShapeInputs}
    \cup {Run(c, a, b) : c \in BasicCsvInputs, a \in BasicAtmosInputs, b \in Backends}
AtmosRuns ==
    {Run(StdCsv(FacetShape), a, "inline") : a \in AtmosInputs}
    \cup {Run(c, a, b) : c \in BasicCsvInputs, a \in BasicAtmosInputs, b \in Backends}

(***************************************************************************)
(* Figures.                                                                *)
(***************************************************************************)
NoPanels == [ivt |-> <<>>, hgt |-> <<>>, pr |-> <<>>, u |-> <<>>, v |-> <<>>, tmp |-> <<>>]
NoBarbs == [u |-> <<>>, v |-> <<>>]
Blank ==
    [mesh |-> <<>>, labels |-> <<>>, scatter |-> <<>>, panels |-> NoPanels,
     barbs10 |-> NoBarbs, barbs11 |-> NoBarbs, title |-> "", by |-> {}]

\* plt.show(): the inline backend of a notebook kernel closes every figure it
\* has shown; a non-interactive backend shows nothing and closes nothing.
ShowCloses == backend = "inline"
AfterShow(open) == IF ShowCloses THEN {} ELSE open

\* savefig writes the current figure, the last one created, under the name
Written(name) ==
    [n \in DOMAIN files \cup {name} |-> IF n = name THEN art[nfig] ELSE files[n]]

NewFigure ==
    /\ nfig' = nfig + 1
    /\ figs' = figs \cup {nfig + 1}

Fail(e) == pc' = "failed" /\ err' = e

(***************************************************************************)
(* The initial state: the files exist, no cell has run.                    *)
(***************************************************************************)
InitRun(r) ==
    /\ csv = r.csv
    /\ nc = r.atmos.nc
    /\ dates = r.atmos.dates
    /\ backend = r.backend
    /\ elev = EmptyGrid /\ facets = EmptyGrid /\ lats = EmptyGrid
    /\ lons = EmptyGrid /\ orientation = EmptyGrid /\ orientx = EmptyGrid
    /\ opg = OpgTable(<<>>, <<>>)
    /\ IVT = EmptyDataset /\ precip = EmptyDataset /\ temp700 = EmptyDataset
    /\ uwinds700 = EmptyDataset /\ vwinds700 = EmptyDataset /\ hgt500 = EmptyDataset
    /\ figs = {} /\ nfig = 0 /\ art = <<>> /\ files = <<>>
    /\ ndays = 0 /\ dayx = 0
    /\ pc = "load_csv" /\ err = "none"

Init == \E r \in GridRuns : InitRun(r)
InitAtmos == \E r \in AtmosRuns : InitRun(r)

(***************************************************************************)
(* Cell 2: the facet and OPG loader.                                       *)
(***************************************************************************)
LoadFacets ==
    /\ pc = "load_csv"
    /\ elev' = csv.elev
    /\ facets' = csv.facets
    /\ lats' = csv.lats
    /\ lons' = csv.lons
    /\ orientation' = csv.orientation
    /\ opg' = csv.opg
    /\ pc' = "ov_mask"
    /\ UNCHANGED <<inputs, orientx, atmosData, plotState, ndays, dayx, err>>

(***************************************************************************)
(* Cell 3: the overview map.                                               *)
(***************************************************************************)
OvMask ==
    /\ pc = "ov_mask"
    /\ orientx' = MaskFlat(orientation)
    /\ orientation' = IF AstypeCopies THEN orientation ELSE orientx'
    /\ pc' = "ov_mesh"
    /\ UNCHANGED <<inputs, elev, facets, lats, lons, opg, atmosData, plotState,
                   ndays, dayx, err>>

OvMesh ==
    /\ pc = "ov_mesh"
    /\ NewFigure
    /\ IF PcolormeshOK(lons, lats, orientx)
       THEN /\ art' = Append(art, [Blank EXCEPT !.mesh = orientx.data,
                                                !.by = {<<"overview", 0>>}])
            /\ pc' = "ov_text"
            /\ err' = err
       ELSE /\ art' = Append(art, Blank)
            /\ Fail("TypeError")
    /\ UNCHANGED <<inputs, facetData, orientx, atmosData, files, ndays, dayx>>

Label(x, y, s) == [x |-> x, y |-> y, s |-> s]

\* plt.text(np.median(lons[facets==2131]), np.median(lats[facets==2131]), str(2131))
FacetLabel ==
    Label(Median(BoolIndex(lons, facets, FacetId)),
          Median(BoolIndex(lats, facets, FacetId)), "2131")

OvText ==
    /\ pc = "ov_text"
    /\ IF BoolIndexOK(lons, facets) /\ BoolIndexOK(lats, facets)
       THEN /\ art' = [art EXCEPT ![nfig].labels = Append(@, FacetLabel)]
            /\ pc' = "ov_save"
            /\ err' = err
       ELSE /\ art' = art
            /\ Fail("IndexError")
    /\ UNCHANGED <<inputs, facetData, orientx, atmosData, figs, nfig, files, ndays, dayx>>

\* plt.savefig: the write succeeds or raises
Savefig(name, next) ==
    \E ok \in BOOLEAN :
        IF ok THEN files' = Written(name) /\ pc' = next /\ err' = err
        ELSE files' = files /\ Fail("OSError")

OvSave ==
    /\ pc = "ov_save"
    /\ Savefig("facet_orientations.png", "ov_show")
    /\ UNCHANGED <<inputs, facetData, orientx, atmosData, figs, nfig, art, ndays, dayx>>

OvShow ==
    /\ pc = "ov_show"
    /\ figs' = AfterShow(figs)
    /\ pc' = "ts_plot"
    /\ UNCHANGED <<inputs, facetData, orientx, atmosData, nfig, art, files, ndays, dayx, err>>

(***************************************************************************)
(* Cell 4: the time series of facet 2131.                                  *)
(***************************************************************************)
\* datetime.strptime(x, '%Y-%m-%d')
Strptime(s) == CHOOSE d \in 1..365 : DatetimeAsString(StartOfDay(d)) = s

RECURSIVE Points(_, _, _)
Points(index, col, i) ==
    IF i > Len(index) THEN <<>>
    ELSE (IF col[i] = NaN THEN <<>> ELSE <<<<Strptime(index[i]), col[i]>>>>)
         \o Points(index, col, i + 1)

TsPlot ==
    /\ pc = "ts_plot"
    /\ NewFigure
    /\ IF "2131" \in DOMAIN opg.cols
       THEN /\ art' = Append(art, [Blank EXCEPT
                                     !.scatter = Points(opg.index, opg.cols["2131"], 1),
                                     !.title = "Daily Observed OPG at Facet 2131",
                                     !.by = {<<"timeseries", 0>>}])
            /\ pc' = "ts_save"
            /\ err' = err
       ELSE /\ art' = Append(art, Blank)
            /\ Fail("KeyError")
    /\ UNCHANGED <<inputs, facetData, orientx, atmosData, files, ndays, dayx>>

TsSave ==
    /\ pc = "ts_save"
    /\ Savefig("opg_timeseries_facet2131.png", "ts_show")
    /\ UNCHANGED <<inputs, facetData, orientx, atmosData, figs, nfig, art, ndays, dayx>>

TsShow ==
    /\ pc = "ts_show"
    /\ figs' = AfterShow(figs)
    /\ pc' = "era_load"
    /\ UNCHANGED <<inputs, facetData, orientx, atmosData, nfig, art, files, ndays, dayx, err>>

(***************************************************************************)
(* Cell 5: the ERA5 loader, with the unit conversions.                     *)
(***************************************************************************)
LoadERA5 ==
    /\ pc = "era_load"
    /\ IVT' = OpenDataset("IVT")
    /\ precip' = Arith(OpenDataset("precip"), "*1000")
    /\ temp700' = Arith(OpenDataset("temp700"), "-273.15")
    /\ uwinds700' = OpenDataset("uwinds700")
    /\ vwinds700' = OpenDataset("vwinds700")
    /\ hgt500' = Arith(OpenDataset("hgt500"), "/9.81")
    /\ pc' = "subset"
    /\ UNCHANGED <<inputs, facetData, orientx, plotState, ndays, dayx, err>>

(***************************************************************************)
(* Cell 7: the date subsetting.                                            *)
(***************************************************************************)
Subset ==
    /\ pc = "subset"
    /\ IVT' = Sel(IVT, dates)
    /\ precip' = Sel(precip, dates)
    /\ temp700' = Sel(temp700, dates)
    /\ uwinds700' = Sel(uwinds700, dates)
    /\ vwinds700' = Sel(vwinds700, dates)
    /\ hgt500' = Sel(hgt500, dates)
    /\ pc' = "loop"
    /\ UNCHANGED <<inputs, facetData, orientx, plotState, ndays, dayx, err>>

(***************************************************************************)
(* Cell 8: the daily multi-panel loop.                                     *)
(***************************************************************************)
\* for dayx in range(len(IVT.time.values))
LoopRange == Len(IVT.time)

LoopStart ==
    /\ pc = "loop"
    /\ ndays' = LoopRange
    /\ dayx' = 0
    /\ pc' = IF ndays' > 0 THEN "day_fig" ELSE "done"
    /\ UNCHANGED <<inputs, facetData, orientx, atmosData, plotState, err>>

DayFig ==
    /\ pc = "day_fig"
    /\ NewFigure
    /\ art' = Append(art, [Blank EXCEPT !.by = {<<"daily", dayx>>}])
    /\ pc' = "day_plot"
    /\ UNCHANGED <<inputs, facetData, orientx, atmosData, files, ndays, dayx, err>>

\* <field>.values[dayx,:,:] is in range
HasDay(ds) == dayx < Len(ds.time)
\* the index is not the loop variable
DayValuesFirst(ds) == ds.vals[1]
DayValues(ds) == ds.vals[dayx + 1]

DayPanels ==
    [ivt |-> DayValues(IVT), hgt |-> DayValues(hgt500), pr |-> DayValues(precip),
     u |-> DayValues(uwinds700), v |-> DayValues(vwinds700), tmp |-> DayValues(temp700)]

\* u700, v700: new arrays, drawn on both wind panels
DayBarbs ==
    [u |-> Barbs(DayValues(uwinds700), uwinds700.shape),
     v |-> Barbs(DayValues(vwinds700), vwinds700.shape)]

\* barbs(x, y, u, v) needs u and v of the shape of the subsampled u-wind mesh
BarbsOK == SubShape(vwinds700.shape) = SubShape(uwinds700.shape)

DayPlot ==
    /\ pc = "day_plot"
    /\ IF ~(HasDay(IVT) /\ HasDay(hgt500) /\ HasDay(precip) /\ HasDay(uwinds700)
            /\ HasDay(vwinds700) /\ HasDay(temp700))
       THEN art' = art /\ Fail("IndexError")
       ELSE IF ~BarbsOK
       THEN /\ art' = [art EXCEPT ![nfig].panels = DayPanels]
            /\ Fail("ValueError")
       ELSE /\ art' = [art EXCEPT ![nfig].panels = DayPanels,
                                  ![nfig].barbs10 = DayBarbs,
                                  ![nfig].barbs11 = DayBarbs]
            /\ pc' = "day_save"
            /\ err' = err
    /\ UNCHANGED <<inputs, facetData, orientx, atmosData, figs, nfig, files, ndays, dayx>>

\* the date string stops at the month
DatexMonth == DatetimeAsStringMonth(IVT.time[dayx + 1])

\* datex = np.datetime_as_string(IVT.time.values[dayx], unit="D")
Datex == DatetimeAsString(IVT.time[dayx + 1])

DaySave ==
    /\ pc = "day_save"
    /\ \E ok \in BOOLEAN :
        IF ok
        THEN /\ art' = [art EXCEPT ![nfig].title = Datex]
             /\ files' = [n \in DOMAIN files \cup {AtmosFile(Datex)} |->
                            IF n = AtmosFile(Datex) THEN art'[nfig] ELSE files[n]]
             /\ pc' = "day_show"
             /\ err' = err
        ELSE /\ art' = [art EXCEPT ![nfig].title = Datex]
             /\ files' = files
             /\ Fail("OSError")
    /\ UNCHANGED <<inputs, facetData, orientx, atmosData, figs, nfig, ndays, dayx>>

DayShow ==
    /\ pc = "day_show"
    /\ figs' = AfterShow(figs)
    /\ dayx' = dayx + 1
    /\ pc' = IF dayx' < ndays THEN "day_fig" ELSE "done"
    /\ UNCHANGED <<inputs, facetData, orientx, atmosData, nfig, art, files, ndays, err>>

Next ==
    \/ LoadFacets
    \/ OvMask
    \/ OvMesh
    \/ OvText
    \/ OvSave
    \/ OvShow
    \/ TsPlot
    \/ TsSave
    \/ TsShow
    \/ LoadERA5
    \/ Subset
    \/ LoopStart
    \/ DayFig
    \/ DayPlot
    \/ DaySave
    \/ DayShow

Spec == Init /\ [][Next]_vars
SpecAtmos == InitAtmos /\ [][Next]_vars

(***************************************************************************)
(* Vocabulary of the properties.                                           *)
(***************************************************************************)
Field(f) ==
    CASE f = "IVT" -> IVT
      [] f = "precip" -> precip
      [] f = "temp700" -> temp700
      [] f = "uwinds700" -> uwinds700
      [] f = "vwinds700" -> vwinds700
      [] f = "hgt500" -> hgt500

Range(s) == {s[i] : i \in 1..Len(s)}
DailyPcs == {"day_fig", "day_plot", "day_save", "day_show"}
\* the subsetting cell has run (a run that fails in the loop has ndays > 0)
Subsetted == pc \in {"loop", "done"} \cup DailyPcs \/ (pc = "failed" /\ ndays > 0)
FixedFiles == {"facet_orientations.png", "opg_timeseries_facet2131.png"}
DailyFiles == DOMAIN files \ FixedFiles
InInterval(t) == dates[1] <= DayOf(t) /\ DayOf(t) <= dates[2]

\* C1: after the subsetting cell each field's time axis holds exactly the
\* timestamps of the file's axis whose day d satisfies start <= d <= end, in
\* the file's order and once each, with one grid of values per timestamp; no
\* interval makes the cell fail (an interval without timestamps leaves an
\* empty axis); and the shipped interval 2017-01-07..2017-01-12 on a daily
\* January axis leaves 6 days.
C1_DateSubset ==
    /\ Subsetted =>
         \A f \in FieldNames :
            LET src == nc[f].time
                got == Field(f).time
            IN  /\ Range(got) = {t \in Range(src) : InInterval(t)}
                /\ \A i, j \in 1..Len(got) : i < j => got[i] < got[j]
                /\ Len(Field(f).vals) = Len(got)
                /\ ({t \in Range(src) : InInterval(t)} = {} => got = <<>>)
    /\ pc = "loop" => err = "none"
    /\ (Subsetted /\ dates = <<7, 12>>
          /\ [i \in 1..Len(nc["IVT"].time) |-> DayOf(nc["IVT"].time[i])] = [i \in 1..31 |-> i])
         => Len(IVT.time) = 6

C1_Witness ==
    /\ pc = "loop"
    /\ dates = <<7, 12>>
    /\ Len(nc["IVT"].time) >= 31
    /\ Len(IVT.time) = 6
    /\ IVT.time[1] = StartOfDay(7) + 1
    /\ IVT.time[6] = StartOfDay(12) + 1

C1_EmptyWitness ==
    /\ pc = "loop"
    /\ Len(nc["IVT"].time) > 0
    /\ IVT.time = <<>>

\* the image the loop wrote for position i of the IVT time axis
Saved(i) ==
    \/ pc = "day_show" /\ i = dayx + 1
    \/ pc \in DailyPcs \cup {"done", "failed"} /\ i <= dayx
JanuaryFile(d) == "atmos_2017-01-" \o TwoDigits(d) \o ".png"

\* C2: the daily loop writes one image per day of the subsetted IVT axis,
\* named atmos_YYYY-MM-DD.png from that day: after k iterations there are k
\* daily files, each still the image its own iteration drew; a completed loop
\* over N days leaves exactly N files, and an empty subset leaves none.
C2_OneFilePerDay ==
    /\ pc \in DailyPcs \cup {"done"} =>
         /\ Cardinality(DailyFiles) = IF pc = "day_show" THEN dayx + 1 ELSE dayx
         /\ \A i \in 1..Len(IVT.time) :
              Saved(i) =>
                 LET d == DayOf(IVT.time[i])
                 IN  /\ d <= 31 => JanuaryFile(d) \in DailyFiles
                     /\ d = 32 => "atmos_2017-02-01.png" \in DailyFiles
                     /\ \E n \in DailyFiles : files[n].by = {<<"daily", i - 1>>}
    /\ pc = "done" => Cardinality(DailyFiles) = Len(IVT.time)
    /\ (Subsetted /\ IVT.time = <<>>) => DailyFiles = {}

C2_MonthEndWitness ==
    /\ pc = "done"
    /\ DailyFiles = {"atmos_2017-01-31.png", "atmos_2017-02-01.png"}

C2_Witness ==
    /\ pc = "done"
    /\ Len(IVT.time) = 6
    /\ DailyFiles = {JanuaryFile(d) : d \in 7..12}

\* C3: the masked grid has the shape of the loaded orientation grid, holds the
\* missing marker where the loaded code is 9 and the loaded value everywhere
\* else (codes 1..8 and cells already missing); masking it again changes
\* nothing; the masking statement never fails.
C3_MaskFlat ==
    pc \notin {"load_csv", "ov_mask"} =>
        /\ orientx.shape = csv.orientation.shape
        /\ Len(orientx.data) = Len(csv.orientation.data)
        /\ \A j \in 1..Len(orientx.data) :
              orientx.data[j] = IF csv.orientation.data[j] = 9 THEN NaN
                                ELSE csv.orientation.data[j]
        /\ MaskFlat(orientx) = orientx
        /\ pc = "ov_mesh" => err = "none"

C3_Witness ==
    /\ pc = "ov_mesh"
    /\ {9, 8, NaN} \subseteq Range(csv.orientation.data)
    /\ NaN \in Range(orientx.data)
    /\ 8 \in Range(orientx.data)

\* the cells of the designated facet, and order statistics of a grid over them
FacetCells == {j \in 1..Len(csv.facets.data) : csv.facets.data[j] = 2131}
IsOrderStat(g, k, v) ==
    /\ \E j \in FacetCells : g.data[j] = v
    /\ Cardinality({j \in FacetCells : g.data[j] < v}) < k
    /\ Cardinality({j \in FacetCells : g.data[j] <= v}) >= k
IsMedian(g, m) ==
    LET n == Cardinality(FacetCells)
    IN  \E a, b \in Range(g.data) :
           /\ IsOrderStat(g, (n + 1) \div 2, a)
           /\ IsOrderStat(g, (n \div 2) + 1, b)
           /\ 2 * m = a + b

\* C5: when facet 2131 occurs in the facet grid, the overview image carries
\* exactly one text label, "2131", at (median longitude, median latitude) of
\* the cells of that facet, and its mesh is undefined at every cell whose
\* loaded orientation code is 9.
C5_FacetLabel ==
    ("facet_orientations.png" \in DOMAIN files /\ FacetCells # {}) =>
        LET img == files["facet_orientations.png"]
        IN  /\ Len(img.labels) = 1
            /\ img.labels[1].s = "2131"
            /\ IsMedian(csv.lons, img.labels[1].x)
            /\ IsMedian(csv.lats, img.labels[1].y)
            /\ \A j \in 1..Len(csv.orientation.data) :
                  csv.orientation.data[j] = 9 => img.mesh[j] = NaN

C5_Witness ==
    /\ "facet_orientations.png" \in DOMAIN files
    /\ Cardinality(FacetCells) = 2
    /\ \E i, j \in FacetCells : csv.lons.data[i] + 4 = csv.lons.data[j]
    /\ 9 \in Range(csv.orientation.data)
    /\ files["facet_orientations.png"].labels[1].x \notin {csv.lons.data[j] : j \in FacetCells}

Loaded == pc # "load_csv"
FacetShapesEqual ==
    /\ elev.shape = facets.shape
    /\ facets.shape = lats.shape
    /\ lats.shape = lons.shape
    /\ lons.shape = orientation.shape

\* C4: once the grids are loaded with shapes that are not all equal, no image
\* file is ever written (the statement of the claim; the notebook validates
\* nothing, see C4_ShapesAccepted).
C4_RejectsMismatch == (Loaded /\ ~FacetShapesEqual) => DOMAIN files = {}

\* the notebook runs to its end on an elevation grid of another shape
C4_ShapesAccepted == ~(pc = "done" /\ ~FacetShapesEqual /\ FixedFiles \subseteq DOMAIN files)

\* C6: when no cell of the loaded facet grid holds 2131, the run ends at the
\* label statement: it neither writes the overview image nor reaches a later
\* statement (the statement of the claim).
C6_DegenerateFatal ==
    (Loaded /\ 2131 \notin Range(facets.data)) =>
        /\ "facet_orientations.png" \notin DOMAIN files
        /\ pc \in {"ov_mask", "ov_mesh", "ov_text", "failed"}

RenderPcs ==
    {"ov_mask", "ov_mesh", "ov_text", "ov_save", "ov_show", "ts_plot", "ts_save",
     "ts_show", "loop"} \cup DailyPcs

\* C7: no step of the three rendering cells changes the loaded grids, the
\* OPG table or the six atmospheric fields; the masked orientation and the
\* scaled wind barbs live in objects of their own.
C7_RenderingKeepsData ==
    [][(pc \in RenderPcs) => (<<facetData, atmosData>>' = <<facetData, atmosData>>)]_vars

C7_Witness ==
    /\ pc = "done"
    /\ 9 \in Range(orientation.data)
    /\ NaN \in Range(orientx.data)
    /\ orientation = csv.orientation
    /\ Len(uwinds700.time) > 0
    /\ \E n \in DailyFiles :
          /\ files[n].barbs10.u # <<>>
          /\ files[n].barbs10.u[1] # files[n].panels.u[1]
          /\ files[n].panels.u = uwinds700.vals[1]

\* figures the daily loop created: the overview and the time series own 1, 2
LoopFigures == {f \in 1..nfig : \E d \in 0..ndays : <<"daily", d>> \in art[f].by}

\* C8: in the daily loop no figure of an earlier iteration is open when an
\* iteration starts, a figure is released also when its savefig raised, and
\* each loop figure is drawn on by one iteration only (the statement of the
\* claim).
C8_FigureReleased ==
    /\ pc = "day_fig" => figs \cap LoopFigures = {}
    /\ (pc = "failed" /\ err = "OSError" /\ ndays > 0) => figs \cap LoopFigures = {}
    /\ \A f \in LoopFigures : Cardinality(art[f].by) = 1

\* what does hold: every drawing call reaches the figure of its own iteration
C8_OwnFigure == \A f \in LoopFigures : Cardinality(art[f].by) = 1

\* the value p is the value s of the file of field f in the units of the plot
Converted(f, p, s) ==
    CASE f = "precip" -> p = 1000 * s
      [] f = "temp700" -> p + 27315 = s
      [] f = "hgt500" -> 981 * p <= 100 * s /\ 100 * s < 981 * (p + 1)
      [] OTHER -> p = s
ConvertedGrid(f, g, src) ==
    /\ Len(g) = Len(src)
    /\ \A j \in 1..Len(g) : Converted(f, g[j], src[j])
\* the grid g of field f is the file's grid of timestamp t, converted once
FileGridAt(f, g, t) ==
    \E k \in 1..Len(nc[f].time) : nc[f].time[k] = t /\ ConvertedGrid(f, g, nc[f].vals[k])
Panel(img, f) ==
    CASE f = "IVT" -> img.panels.ivt
      [] f = "precip" -> img.panels.pr
      [] f = "temp700" -> img.panels.tmp
      [] f = "uwinds700" -> img.panels.u
      [] f = "vwinds700" -> img.panels.v
      [] f = "hgt500" -> img.panels.hgt
\* the figure of the current iteration has its six panels drawn
PanelsDrawn == pc \in {"day_save", "day_show"}

\* C9: from the loader on, whatever the interval, every grid of every field
\* is the file's grid of the same timestamp with the field's conversion
\* applied once (precipitation x 1000, temperature - 273.15, geopotential
\* / 9.81, IVT and winds as read), before and after the subsetting, and so
\* is every panel the loop draws.
C9_ConvertedOnce ==
    /\ (pc = "subset" \/ Subsetted) =>
          \A f \in FieldNames :
             \A i \in 1..Len(Field(f).time) :
                FileGridAt(f, Field(f).vals[i], Field(f).time[i])
    /\ PanelsDrawn =>
          \A f \in FieldNames :
             FileGridAt(f, Panel(art[nfig], f), Field(f).time[dayx + 1])

C9_Witness ==
    /\ pc = "day_show"
    /\ 0 < Len(precip.time) /\ Len(precip.time) < Len(nc["precip"].time)
    /\ precip.time[1] # nc["precip"].time[1]
    /\ art[nfig].panels.pr[1] = 1000 * SrcValue("precip", precip.time[dayx + 1], 1)
    /\ art[nfig].panels.tmp[1] < 0
    /\ art[nfig].panels.hgt[1] * 9 < SrcValue("hgt500", hgt500.time[dayx + 1], 1)

Days(time) == [i \in 1..Len(time) |-> DayOf(time[i])]
\* field f has, at position i of the IVT axis, a timestamp of IVT's day
SameDayAt(f, i) ==
    i <= Len(Field(f).time) /\ DayOf(Field(f).time[i]) = DayOf(IVT.time[i])
\* the grid g is the file's grid of field f for day d, in the plot's units
ShowsDay(f, g, d) ==
    \E k \in 1..Len(nc[f].time) :
        DayOf(nc[f].time[k]) = d /\ ConvertedGrid(f, g, nc[f].vals[k])
\* b holds the knots of every fifth cell, in both directions, of the file's
\* grid of field f for day d
BarbsOfDay(f, b, d) ==
    \E k \in 1..Len(nc[f].time) :
        /\ DayOf(nc[f].time[k]) = d
        /\ LET ny == nc[f].shape[1]
               nx == nc[f].shape[2]
               sy == (ny + 4) \div 5
               sx == (nx + 4) \div 5
           IN  /\ Len(b) = sy * sx
               /\ \A r \in 0..(sy - 1) : \A c \in 0..(sx - 1) :
                     LET src == nc[f].vals[k][5 * r * nx + 5 * c + 1]
                         kn == b[r * sx + c + 1]
                     IN  100000 * kn <= 194384 * src /\ 194384 * src < 100000 * (kn + 1)
ImageOf(i) == files[AtmosFile(DatetimeAsString(IVT.time[i]))]

\* C10 (as amended): the range of the loop and the date of title and file
\* name come from the IVT axis, and every field is read at the loop's
\* position.  An image shows, in the panel of a field, the data of the date
\* in its file name exactly when that field's axis has a timestamp of IVT's
\* day at the image's position (so always when the six axes are identical);
\* otherwise the panel shows the field's data of another day.  A field whose
\* axis is shorter than IVT's makes the run fail with an out-of-range index
\* at the first missing position, after one image per earlier position was
\* written.
C10_PositionalAlignment ==
    /\ pc = "day_fig" => ndays = Len(IVT.time)
    /\ \A i \in 1..Len(IVT.time) :
          Saved(i) =>
             LET img == ImageOf(i)
                 d == DayOf(IVT.time[i])
             IN  /\ img.by = {<<"daily", i - 1>>}
                 /\ img.title = DatetimeAsString(StartOfDay(d))
                 /\ \A f \in FieldNames :
                       SameDayAt(f, i) <=> ShowsDay(f, Panel(img, f), d)
                 /\ img.barbs10 = img.barbs11
                 /\ SameDayAt("uwinds700", i) <=> BarbsOfDay("uwinds700", img.barbs10.u, d)
                 /\ SameDayAt("vwinds700", i) <=> BarbsOfDay("vwinds700", img.barbs10.v, d)
    /\ (Subsetted /\ \E f \in FieldNames : Len(Field(f).time) < Len(IVT.time)) => pc # "done"
    /\ (pc = "failed" /\ err = "IndexError" /\ ndays > 0) =>
          /\ dayx < ndays
          /\ \E f \in FieldNames : Len(Field(f).time) = dayx
          /\ \A f \in FieldNames : Len(Field(f).time) >= dayx
          /\ Cardinality(DailyFiles) = dayx

C10_Witness ==
    /\ pc = "done"
    /\ ndays >= 2
    /\ Len(precip.time) > Len(IVT.time)
    /\ \A i \in 1..ndays : \A f \in FieldNames : ShowsDay(f, Panel(ImageOf(i), f), DayOf(IVT.time[i]))

C10_MisalignedWitness ==
    /\ pc = "done"
    /\ \E i \in 1..ndays : ~ShowsDay("hgt500", Panel(ImageOf(i), "hgt500"), DayOf(IVT.time[i]))

C10_IndexErrorWitness ==
    /\ pc = "failed" /\ err = "IndexError"
    /\ dayx >= 1

\* C10 (as stated): with six identical axes every image shows the data of
\* its date, and a run over at least one day in which some field's axis holds
\* other days than IVT's does not end without an image that shows another
\* day's data.
C10_DifferingAxisCaught ==
    /\ (\A f \in FieldNames : Field(f).time = IVT.time) =>
          \A i \in 1..Len(IVT.time) :
             Saved(i) => \A f \in FieldNames :
                            ShowsDay(f, Panel(ImageOf(i), f), DayOf(IVT.time[i]))
    /\ (pc = "done" /\ ndays > 0 /\ \E f \in FieldNames : Days(Field(f).time) # Days(IVT.time)) =>
          \E i \in 1..Len(IVT.time) : \E f \in FieldNames :
             ~ShowsDay(f, Panel(ImageOf(i), f), DayOf(IVT.time[i]))

====
